---- MODULE Spec2Model ----
(***************************************************************************)
(* A model of dj-soundcloud-digger.py: the URL canonicalizer               *)
(* (clean_track_url), the playlist extractor (load_tracks_from_html_file), *)
(* the item link classifier (analyze_links), the fetch loop                *)
(* (collect_track_data) and the aggregator (summarize_categories).         *)
(*                                                                         *)
(* Python strings are TLA+ strings, read character by character with Len,  *)
(* SubSeq and \o.  Python's None is the empty tuple <<>> and a present     *)
(* value v is <<v>>.  A dict is the sequence of its (key, value) entries   *)
(* in insertion order.                                                     *)
(***************************************************************************)
EXTENDS Integers, Sequences, FiniteSets, TLC

VARIABLES
    \* clean_track_url applied once and twice
    url, cleaned, twice, cpc,
    \* analyze_links: its arguments and its result
    track_url, soup, per_track, apc,
    \* collect_track_data and summarize_categories: the item list, the loop's
    \* position, the fetch outcomes so far, the running dict and the summary
    track_list, idx, fetched, categorized, summary, kpc,
    \* load_tracks_from_html_file: the file, the locals of the function, what each
    \* script's scan did, the returned sequence, and the result of an earlier run
    html, track_links, hydration_links, declared_count, script_idx, scans, all_links,
    previous, lpc,
    \* is_reserved_path and the anchor filter on one path: the segments, the
    \* verdict, and what parse_track_links_from_html keeps of an anchor to the path
    seg_list, verdict, kept_links, rpc

cleanVars == <<url, cleaned, twice, cpc>>
reservedVars == <<seg_list, verdict, kept_links, rpc>>
analyzeVars == <<track_url, soup, per_track, apc>>
collectVars == <<track_list, idx, fetched, categorized, summary, kpc>>
loadVars == <<html, track_links, hydration_links, declared_count, script_idx, scans,
              all_links, previous, lpc>>
vars == <<url, cleaned, twice, cpc, track_url, soup, per_track, apc,
          track_list, idx, fetched, categorized, summary, kpc,
          html, track_links, hydration_links, declared_count, script_idx, scans,
          all_links, previous, lpc, seg_list, verdict, kept_links, rpc>>

(***************************************************************************)
(* String primitives (str methods used by the program)                     *)
(***************************************************************************)
Min(S) == CHOOSE x \in S : \A y \in S : x <= y
Max(S) == CHOOSE x \in S : \A y \in S : x >= y

\* s[i-1] of Python, 1-based here
Ch(s, i) == IF i >= 1 /\ i <= Len(s) THEN SubSeq(s, i, i) ELSE ""

\* s[a-1:b] of Python with its clamping: the characters a..b, 1-based inclusive
Slice(s, a, b) ==
    LET lo == IF a < 1 THEN 1 ELSE a
        hi == IF b > Len(s) THEN Len(s) ELSE b
    IN  IF lo > hi THEN "" ELSE SubSeq(s, lo, hi)

\* s.find(sub, start): the lowest 1-based index >= start where sub occurs, 0 for Python's -1
\* (the indexes near start are tried before the rest)
Find(s, sub, start) ==
    LET Lowest(near, far) == IF near # {} THEN Min(near) ELSE IF far # {} THEN Min(far) ELSE 0
    IN  Lowest({i \in start..(start + 15) :
                   i + Len(sub) - 1 <= Len(s) /\ SubSeq(s, i, i + Len(sub) - 1) = sub},
               {i \in (start + 16)..(Len(s) - Len(sub) + 1) : SubSeq(s, i, i + Len(sub) - 1) = sub})

\* sub in s
Contains(s, sub) == Find(s, sub, 1) # 0

\* s.startswith(p)
StartsWith(s, p) == Len(p) <= Len(s) /\ SubSeq(s, 1, Len(p)) = p

\* s.split(sep) for a one-character separator
RECURSIVE Split(_, _)
Split(s, sep) ==
    LET At(i) == IF i = 0 THEN <<s>>
                 ELSE <<SubSeq(s, 1, i - 1)>> \o Split(SubSeq(s, i + 1, Len(s)), sep)
    IN  At(Find(s, sep, 1))

\* sep.join(parts)
RECURSIVE Join(_, _)
Join(parts, sep) ==
    IF parts = <<>> THEN ""
    ELSE IF Len(parts) = 1 THEN parts[1]
    ELSE parts[1] \o sep \o Join(Tail(parts), sep)

Whitespace == {" ", "\t", "\n"}

\* s.strip()
Strip(s) ==
    LET Between(inner) == IF inner = {} THEN "" ELSE SubSeq(s, Min(inner), Max(inner))
    IN  Between({k \in 1..Len(s) : Ch(s, k) \notin Whitespace})

\* s.rstrip(c) for a one-character c
RECURSIVE RStrip(_, _)
RStrip(s, c) == IF Ch(s, Len(s)) = c THEN RStrip(SubSeq(s, 1, Len(s) - 1), c) ELSE s

UpperAlpha == "ABCDEFGHIJKLMNOPQRSTUVWXYZ"
LowerAlpha == "abcdefghijklmnopqrstuvwxyz"
Digits == "0123456789"

\* s.lower() on ASCII
UpperLetters == {Ch(UpperAlpha, k) : k \in 1..Len(UpperAlpha)}
RECURSIVE Lower(_)
Lower(s) ==
    IF s = "" THEN ""
    ELSE LET c == Ch(s, 1)
         IN  (IF c \in UpperLetters THEN Ch(LowerAlpha, Find(UpperAlpha, c, 1)) ELSE c)
             \o Lower(SubSeq(s, 2, Len(s)))

(***************************************************************************)
(* urllib.parse.urlparse and ParseResult.geturl, as clean_track_url uses   *)
(* them: (scheme, netloc, path, query, fragment).  Inputs carry no ';'     *)
(* path parameters, no control characters and no '[' or ']' in the netloc. *)
(***************************************************************************)
scheme_chars == LowerAlpha \o UpperAlpha \o Digits \o "+-."
uses_netloc == {"ftp", "http", "https", "file", "ws", "wss"}

\* _splitnetloc(url, 2): the end of the netloc, the first of '/', '?', '#' after "//"
NetlocEnd(u) ==
    LET Before(ds) == IF ds = {} THEN Len(u) ELSE Min(ds) - 1
    IN  Before({Find(u, d, 3) : d \in {"/", "?", "#"}} \ {0})

\* urlsplit, last steps: the query is cut off at the first '?'
SplitQuery(scheme, netloc, rest, fragment, q) ==
    [scheme |-> scheme, netloc |-> netloc,
     path |-> IF q = 0 THEN rest ELSE Slice(rest, 1, q - 1),
     query |-> IF q = 0 THEN "" ELSE Slice(rest, q + 1, Len(rest)),
     fragment |-> fragment]

\* urlsplit: the fragment is cut off at the first '#' (h)
SplitFragment(scheme, netloc, rest, h) ==
    IF h = 0 THEN SplitQuery(scheme, netloc, rest, "", Find(rest, "?", 1))
    ELSE SplitQuery(scheme, netloc, Slice(rest, 1, h - 1), Slice(rest, h + 1, Len(rest)),
                    Find(Slice(rest, 1, h - 1), "?", 1))

\* urlsplit: the netloc follows "//" and ends at NetlocEnd
SplitNetloc(scheme, rest, end) ==
    IF Slice(rest, 1, 2) = "//"
    THEN SplitFragment(scheme, Slice(rest, 3, end), Slice(rest, end + 1, Len(rest)),
                       Find(Slice(rest, end + 1, Len(rest)), "#", 1))
    ELSE SplitFragment(scheme, "", rest, Find(rest, "#", 1))

\* urlsplit: the scheme is what precedes the first ':' (at i), if it is one
SplitScheme(u, dflt, i) ==
    IF /\ i > 1
       /\ Contains(UpperAlpha \o LowerAlpha, Ch(u, 1))
       /\ \A k \in 1..(i - 1) : Contains(scheme_chars, Ch(u, k))
    THEN SplitNetloc(Lower(SubSeq(u, 1, i - 1)), SubSeq(u, i + 1, Len(u)),
                     NetlocEnd(SubSeq(u, i + 1, Len(u))))
    ELSE SplitNetloc(dflt, u, NetlocEnd(u))

\* urlparse(u, scheme=dflt)
urlparse_scheme(u, dflt) == SplitScheme(u, dflt, Find(u, ":", 1))

urlparse(u) == urlparse_scheme(u, "")

\* ParseResult.geturl(): urlunparse -> urlunsplit
geturl(p) ==
    (IF p.scheme # "" THEN p.scheme \o ":" ELSE "")
    \o (IF p.netloc # "" \/
           (p.scheme # "" /\ p.scheme \in uses_netloc /\ Slice(p.path, 1, 2) # "//")
        THEN "//" \o p.netloc \o
             (IF p.path # "" /\ Ch(p.path, 1) # "/" THEN "/" \o p.path ELSE p.path)
        ELSE p.path)
    \o (IF p.query # "" THEN "?" \o p.query ELSE "")
    \o (IF p.fragment # "" THEN "#" \o p.fragment ELSE "")

uses_relative == {"ftp", "http", "https", "file", "ws", "wss"}

\* The '.' and '..' resolution loop of urljoin over the path segments
RECURSIVE ResolveSegments(_, _)
ResolveSegments(segments, resolved) ==
    IF segments = <<>> THEN resolved
    ELSE LET seg == Head(segments)
         IN  ResolveSegments(Tail(segments),
                 IF seg = ".." THEN (IF resolved = <<>> THEN <<>>
                                     ELSE SubSeq(resolved, 1, Len(resolved) - 1))
                 ELSE IF seg = "." THEN resolved
                 ELSE Append(resolved, seg))

\* segments[1:-1] = filter(None, segments[1:-1])
DropEmptyInner(segments) ==
    IF Len(segments) < 3 THEN segments
    ELSE LET n == Len(segments)
             F[k \in 1..n] ==
                 LET before == IF k = 1 THEN <<>> ELSE F[k - 1]
                 IN  IF k > 1 /\ k < n /\ segments[k] = "" THEN before
                     ELSE Append(before, segments[k])
         IN  F[n]

\* urljoin: the path of the result, from the segments to resolve
JoinedPath(segments) ==
    LET Path(joined) == IF joined = "" THEN "/" ELSE joined
    IN  Path(Join(ResolveSegments(segments, <<>>) \o
                  (IF segments[Len(segments)] \in {".", ".."} THEN <<"">> ELSE <<>>), "/"))

\* base_parts = bpath.split('/'), without a last part that is not empty
BaseParts(bsplit) ==
    IF bsplit[Len(bsplit)] # "" THEN SubSeq(bsplit, 1, Len(bsplit) - 1) ELSE bsplit

\* urljoin once both URLs are parsed: b the base, r the other
JoinParsed(b, r, u) ==
    IF r.scheme # b.scheme \/ r.scheme \notin uses_relative THEN u
    ELSE IF r.scheme \in uses_netloc /\ r.netloc # "" THEN geturl(r)
    ELSE IF r.path = ""
    THEN geturl([r EXCEPT !.netloc = IF r.scheme \in uses_netloc THEN b.netloc ELSE r.netloc,
                          !.path = b.path,
                          !.query = IF r.query = "" THEN b.query ELSE r.query])
    ELSE geturl([r EXCEPT !.netloc = IF r.scheme \in uses_netloc THEN b.netloc ELSE r.netloc,
                          !.path = JoinedPath(IF Slice(r.path, 1, 1) = "/" THEN Split(r.path, "/")
                                              ELSE DropEmptyInner(BaseParts(Split(b.path, "/"))
                                                                  \o Split(r.path, "/")))])

\* urllib.parse.urljoin(base, u)
urljoin(base, u) ==
    IF base = "" THEN u
    ELSE IF u = "" THEN base
    ELSE LET Joined(b) == JoinParsed(b, urlparse_scheme(u, b.scheme), u)
         IN  Joined(urlparse(base))

(***************************************************************************)
(* clean_track_url                                                         *)
(***************************************************************************)
\* [p for p in parts if not p.startswith("in=")]
RECURSIVE DropTracking(_)
DropTracking(parts) ==
    IF parts = <<>> THEN <<>>
    ELSE (IF StartsWith(parts[1], "in=") THEN <<>> ELSE <<parts[1]>>) \o DropTracking(Tail(parts))

\* cleaned_query: "?" and the kept parameters, "" when there are none
CleanedQuery(params) == IF params # <<>> THEN "?" \o Join(params, "&") ELSE ""

\* parsed._replace(query=cleaned_query, fragment="")
Replaced(parsed) ==
    [parsed EXCEPT !.query = CleanedQuery(IF parsed.query # ""
                                          THEN DropTracking(Split(parsed.query, "&"))
                                          ELSE <<>>),
                   !.fragment = ""]

clean_track_url(u) == RStrip(geturl(Replaced(urlparse(u))), "?")

(***************************************************************************)
(* json.loads on the text of a candidate data block.  A value is a record  *)
(* tagged by its Python type: t is "list", "dict", "str", "int", "bool" or *)
(* "none".  The inputs hold no string escapes and no floats.               *)
(***************************************************************************)
JsonWhitespace == {" ", "\t", "\n", "\r"}

JNone == [t |-> "none"]
JBool(b) == [t |-> "bool", b |-> b]
JInt(n) == [t |-> "int", n |-> n]
JStr(str) == [t |-> "str", s |-> str]
JList(items) == [t |-> "list", items |-> items]
JDict(entries) == [t |-> "dict", entries |-> entries]

JsonFail == [ok |-> FALSE, v |-> JNone, next |-> 0]
JsonOk(v, next) == [ok |-> TRUE, v |-> v, next |-> next]

\* The first index >= i that holds no whitespace (Len(s) + 1 at the end)
RECURSIVE SkipWs(_, _)
SkipWs(s, i) == IF Ch(s, i) \in JsonWhitespace THEN SkipWs(s, i + 1) ELSE i

\* The index after the run of digits that starts at i
DigitChars == {Ch(Digits, k) : k \in 1..Len(Digits)}
RECURSIVE DigitsEnd(_, _)
DigitsEnd(s, i) == IF Ch(s, i) \in DigitChars THEN DigitsEnd(s, i + 1) ELSE i

\* int() of a string of digits
RECURSIVE DigitsValue(_)
DigitsValue(d) ==
    IF d = "" THEN 0
    ELSE 10 * DigitsValue(SubSeq(d, 1, Len(d) - 1)) + (Find(Digits, Ch(d, Len(d)), 1) - 1)

RECURSIVE ParseValue(_, _)
RECURSIVE ParseItems(_, _, _)
RECURSIVE ParseEntries(_, _, _)

\* A JSON number at i: '-'? (0 | [1-9][0-9]*)
ParseNumber(s, i) ==
    LET Number(neg, d0, d1, digits) ==
            IF digits = "" THEN JsonFail
            ELSE IF Ch(digits, 1) = "0" THEN JsonOk(JInt(0), d0 + 1)
            ELSE JsonOk(JInt(IF neg THEN 0 - DigitsValue(digits) ELSE DigitsValue(digits)), d1)
        Run(neg, d0, d1) == Number(neg, d0, d1, Slice(s, d0, d1 - 1))
        From(neg, d0) == Run(neg, d0, DigitsEnd(s, d0))
    IN  IF Ch(s, i) = "-" THEN From(TRUE, i + 1) ELSE From(FALSE, i)

\* A JSON string at i (s[i] is the opening quote)
ParseString(s, i) ==
    LET Upto(j) == IF j = 0 THEN JsonFail ELSE JsonOk(JStr(Slice(s, i + 1, j - 1)), j + 1)
    IN  Upto(Find(s, "\"", i + 1))

ParseLiteral(s, i, word, v) ==
    IF Slice(s, i, i + Len(word) - 1) = word THEN JsonOk(v, i + Len(word)) ELSE JsonFail

ParseValue(s, i) ==
    LET Array(k) == IF Ch(s, k) = "]" THEN JsonOk(JList(<<>>), k + 1) ELSE ParseItems(s, k, <<>>)
        Object(k) == IF Ch(s, k) = "}" THEN JsonOk(JDict(<<>>), k + 1) ELSE ParseEntries(s, k, <<>>)
        At(c) ==
            IF c = "\"" THEN ParseString(s, i)
            ELSE IF c = "[" THEN Array(SkipWs(s, i + 1))
            ELSE IF c = "{" THEN Object(SkipWs(s, i + 1))
            ELSE IF c = "t" THEN ParseLiteral(s, i, "true", JBool(TRUE))
            ELSE IF c = "f" THEN ParseLiteral(s, i, "false", JBool(FALSE))
            ELSE IF c = "n" THEN ParseLiteral(s, i, "null", JNone)
            ELSE IF c = "-" \/ c \in DigitChars THEN ParseNumber(s, i)
            ELSE JsonFail
    IN  At(Ch(s, i))

\* The items of an array from i on, after those in acc
ParseItems(s, i, acc) ==
    LET After(r, k) ==
            IF Ch(s, k) = "," THEN ParseItems(s, SkipWs(s, k + 1), Append(acc, r.v))
            ELSE IF Ch(s, k) = "]" THEN JsonOk(JList(Append(acc, r.v)), k + 1)
            ELSE JsonFail
        Item(r) == IF ~r.ok THEN JsonFail ELSE After(r, SkipWs(s, r.next))
    IN  Item(ParseValue(s, i))

\* The "key": value entries of an object from i on, after those in acc
ParseEntries(s, i, acc) ==
    LET After(key, r, k) ==
            IF Ch(s, k) = "," THEN ParseEntries(s, SkipWs(s, k + 1), Append(acc, [k |-> key.v.s, v |-> r.v]))
            ELSE IF Ch(s, k) = "}" THEN JsonOk(JDict(Append(acc, [k |-> key.v.s, v |-> r.v])), k + 1)
            ELSE JsonFail
        Value(key, r) == IF ~r.ok THEN JsonFail ELSE After(key, r, SkipWs(s, r.next))
        Colon(key, colon) ==
            IF Ch(s, colon) # ":" THEN JsonFail
            ELSE Value(key, ParseValue(s, SkipWs(s, colon + 1)))
        Key(key) == IF ~key.ok THEN JsonFail ELSE Colon(key, SkipWs(s, key.next))
    IN  IF Ch(s, i) = "\"" THEN Key(ParseString(s, i)) ELSE JsonFail

\* json.loads(s): [ok, v]; ok is FALSE where json.loads raises
json_loads(s) ==
    LET Whole(r) == IF r.ok /\ SkipWs(s, r.next) = Len(s) + 1 THEN r ELSE JsonFail
    IN  Whole(ParseValue(s, SkipWs(s, 1)))

(***************************************************************************)
(* extract_links_from_hydration_data on a parsed data block                *)
(***************************************************************************)
\* d.get(key) on the entries of a JSON object: <<>> when absent, the last value else
DictLookup(entries, key) ==
    LET Last(hits) == IF hits = {} THEN <<>> ELSE <<entries[Max(hits)].v>>
    IN  Last({k \in DOMAIN entries : entries[k].k = key})

\* bool(v)
Truthy(v) ==
    CASE v.t = "none" -> FALSE
      [] v.t = "bool" -> v.b
      [] v.t = "int" -> v.n # 0
      [] v.t = "str" -> v.s # ""
      [] v.t = "list" -> v.items # <<>>
      [] v.t = "dict" -> v.entries # <<>>

\* int(v): <<n>>, or <<>> where int raises TypeError or ValueError
IntOf(v) ==
    LET Value(neg, d) ==
            IF d # "" /\ \A k \in 1..Len(d) : Ch(d, k) \in DigitChars
            THEN <<IF neg THEN 0 - DigitsValue(d) ELSE DigitsValue(d)>>
            ELSE <<>>
        Signed(stripped) ==
            IF Ch(stripped, 1) \in {"+", "-"}
            THEN Value(Ch(stripped, 1) = "-", Slice(stripped, 2, Len(stripped)))
            ELSE Value(FALSE, stripped)
    IN  CASE v.t = "int" -> <<v.n>>
          [] v.t = "bool" -> <<IF v.b THEN 1 ELSE 0>>
          [] v.t = "str" -> Signed(Strip(v.s))
          [] OTHER -> <<>>

\* The body of "for track in tracks" for one track; st.raised once an exception left
HydrationTrack(st, track) ==
    LET Add(permalink) ==
            IF ~Truthy(permalink) THEN st
            ELSE IF permalink.t # "str" THEN [st EXCEPT !.raised = TRUE]
            ELSE [st EXCEPT !.links = @ \cup {clean_track_url(permalink.s)}]
        Second(second) == Add(IF second # <<>> THEN second[1] ELSE JNone)
        First(first) ==
            IF first # <<>> /\ Truthy(first[1]) THEN Add(first[1])
            ELSE Second(DictLookup(track.entries, "permalink"))
    IN  IF st.raised \/ track.t # "dict" THEN st
        ELSE First(DictLookup(track.entries, "permalink_url"))

RECURSIVE HydrationTracks(_, _)
HydrationTracks(st, tracks) ==
    IF tracks = <<>> THEN st ELSE HydrationTracks(HydrationTrack(st, tracks[1]), Tail(tracks))

\* The body of "for entry in dataset" for one entry
HydrationEntry(st, entry) ==
    LET Tracks(st1, tracks) ==
            IF tracks.t = "list" THEN HydrationTracks(st1, tracks.items)
            ELSE IF tracks.t \in {"dict", "str"} THEN st1
            ELSE [st1 EXCEPT !.raised = TRUE]
        Declared(counted, tracks) ==
            Tracks([st EXCEPT !.declared = IF tracks.t = "list" /\ counted = <<>>
                                           THEN <<Len(tracks.items)>> ELSE counted],
                   tracks)
        Listed(counted, tracksGot) ==
            Declared(counted, IF tracksGot = <<>> THEN JList(<<>>) ELSE tracksGot[1])
        Converted(n) == IF n = <<>> THEN st.declared ELSE n
        Counted(data, track_count) ==
            Listed(IF track_count = <<>> \/ track_count[1].t = "none" THEN st.declared
                   ELSE IF st.declared # <<>> /\ st.declared[1] # 0 THEN st.declared
                   ELSE Converted(IntOf(track_count[1])),
                   DictLookup(data.entries, "tracks"))
        Data(data) ==
            IF data.t # "dict" THEN [st EXCEPT !.raised = TRUE]
            ELSE Counted(data, DictLookup(data.entries, "track_count"))
        Got(dataGot) == Data(IF dataGot = <<>> THEN JDict(<<>>) ELSE dataGot[1])
        Kind(hydratable) ==
            IF hydratable = <<>> \/ hydratable[1].t # "str" THEN st
            ELSE IF hydratable[1].s # "playlist" THEN st
            ELSE Got(DictLookup(entry.entries, "data"))
    IN  IF st.raised \/ entry.t # "dict" THEN st
        ELSE Kind(DictLookup(entry.entries, "hydratable"))

RECURSIVE HydrationEntries(_, _)
HydrationEntries(st, dataset) ==
    IF dataset = <<>> THEN st ELSE HydrationEntries(HydrationEntry(st, dataset[1]), Tail(dataset))

\* extract_links_from_hydration_data(dataset): [links, declared, raised]
extract_links_from_hydration_data(dataset) ==
    IF dataset.t # "list" THEN [links |-> {}, declared |-> <<>>, raised |-> FALSE]
    ELSE HydrationEntries([links |-> {}, declared |-> <<>>, raised |-> FALSE], dataset.items)

(***************************************************************************)
(* The playlist extractor: parse_track_links_from_html, is_reserved_path,  *)
(* the data-block scan of load_tracks_from_html_file, sorted,              *)
(* extract_declared_track_count                                            *)
(***************************************************************************)
RESERVED_TRACK_SLUGS ==
    {"sets", "albums", "tracks", "followers", "following", "likes", "reposts", "library",
     "popular-tracks", "groups", "comments", "events"}

RESERVED_FIRST_SEGMENTS ==
    {"about", "contributors", "discover", "popular", "charts", "company", "jobs", "press",
     "legal", "advertisers", "terms-of-use", "privacy", "pages", "stream", "stations",
     "getstarted", "the-upload", "you"}

RESERVED_SECOND_SEGMENTS ==
    {"sets", "albums", "tracks", "followers", "following", "library", "likes", "comments",
     "reposts", "popular-tracks"}

\* TRACK_URL_PATTERN.match(href): <<group 1, group 2>>, or <<>> for no match.
\* ^https://soundcloud.com/([^/]+)/([^/?#]+)(?:[/?#]|$) with re.IGNORECASE; the
\* unescaped '.' takes any one character but a newline.
TrackUrlMatch(href) ==
    LET Groups(g) ==
            LET Upto(e) ==
                    IF /\ Lower(Slice(href, 1, 18)) = "https://soundcloud"
                       /\ Ch(href, 19) \notin {"", "\n"}
                       /\ Lower(Slice(href, 20, 23)) = "com/"
                       /\ g > 24
                       /\ e > g + 1
                    THEN <<Slice(href, 24, g - 1), Slice(href, g + 1, e - 1)>>
                    ELSE <<>>
            IN  Upto(Min({k \in (g + 1)..(Len(href) + 1) : Ch(href, k) \in {"/", "?", "#", ""}}))
    IN  Groups(Find(href, "/", 24))

\* [seg for seg in path.split("/") if seg]
RECURSIVE NonEmpty(_)
NonEmpty(parts) ==
    IF parts = <<>> THEN <<>>
    ELSE (IF parts[1] = "" THEN <<>> ELSE <<parts[1]>>) \o NonEmpty(Tail(parts))

\* A slip: the second segment is not looked at
is_reserved_path_FirstOnly(path_segments) ==
    \/ path_segments = <<>>
    \/ Lower(path_segments[1]) \in RESERVED_FIRST_SEGMENTS
    \/ StartsWith(Lower(path_segments[1]), "pages")

is_reserved_path(path_segments) ==
    LET Reserved(first_segment) ==
            \/ first_segment \in RESERVED_FIRST_SEGMENTS
            \/ Len(path_segments) >= 2 /\ Lower(path_segments[2]) \in RESERVED_SECOND_SEGMENTS
            \/ StartsWith(first_segment, "pages")
            \/ first_segment \in {"charts", "company", "getstarted"}
    IN  IF path_segments = <<>> THEN TRUE ELSE Reserved(Lower(path_segments[1]))

\* The body of the anchor loop of parse_track_links_from_html for one href:
\* the set of links it adds (none or one)
AnchorTrackLinks(href0) ==
    LET BySegments(cleanedHref, segments) ==
            IF Len(segments) < 2 THEN {}
            ELSE IF is_reserved_path(segments) THEN {}
            ELSE {cleanedHref}
        ByMatch(match, cleanedHref) ==
            IF match = <<>> THEN {}
            ELSE IF Lower(match[2]) \in RESERVED_TRACK_SLUGS THEN {}
            ELSE BySegments(cleanedHref, NonEmpty(Split(urlparse(cleanedHref).path, "/")))
        OfHref(href) == ByMatch(TrackUrlMatch(href), clean_track_url(href))
    IN  OfHref(IF StartsWith(href0, "/") THEN urljoin("https://soundcloud.com", href0) ELSE href0)

\* parse_track_links_from_html, given the href of every <a href> of the file
parse_track_links_from_html(anchors) ==
    UNION {AnchorTrackLinks(anchors[k]) : k \in DOMAIN anchors}

\* The text of an inline script: head, then gap spaces, then tail.  The gap stands
\* for a long run of spaces, written as its length; it lies between tokens.
ScLen(sc) == Len(sc.head) + sc.gap + Len(sc.tail)

ScCh(sc, i) ==
    IF i <= Len(sc.head) THEN Ch(sc.head, i)
    ELSE IF i <= Len(sc.head) + sc.gap THEN " "
    ELSE Ch(sc.tail, i - Len(sc.head) - sc.gap)

\* script_content.find(sub, start) for a sub without spaces, 0 for -1
ScFind(sc, sub, start) ==
    LET InTail(off, inTail) == IF inTail # 0 THEN inTail + off ELSE 0
        Tail_(off) == InTail(off, Find(sc.tail, sub, IF start > off THEN start - off ELSE 1))
        InHead(inHead) == IF inHead # 0 THEN inHead ELSE Tail_(Len(sc.head) + sc.gap)
    IN  InHead(Find(sc.head, sub, start))

ScContains(sc, sub) == ScFind(sc, sub, 1) # 0

\* script_content[a-1:b] as json.loads reads it: a run of spaces between tokens
\* reads as one space does
ScSliceText(sc, a, b) ==
    LET Text(off) ==
            Slice(sc.head, a, IF b > Len(sc.head) THEN Len(sc.head) ELSE b)
            \o (IF \E k \in {Len(sc.head) + 1, off} : k >= a /\ k <= b /\ sc.gap > 0
                THEN " " ELSE "")
            \o (IF b > off THEN Slice(sc.tail, IF a > off THEN a - off ELSE 1, b - off) ELSE "")
    IN  Text(Len(sc.head) + sc.gap)

ScanWindow == 50000

\* The indexes i..limit that hold a bracket (the gap holds none)
Brackets(sc, i, limit) ==
    {k \in i..(IF limit < Len(sc.head) THEN limit ELSE Len(sc.head)) : ScCh(sc, k) \in {"[", "]"}}
    \cup {k \in (Len(sc.head) + sc.gap + 1)..limit : k >= i /\ ScCh(sc, k) \in {"[", "]"}}

\* The bracket loop up to index limit, given the bracket indexes it has yet to
\* reach: whether the bracket that opens the block was closed, and the last index
\* examined.  Characters that are not brackets change nothing.
RECURSIVE BracketScan(_, _, _, _)
BracketScan(sc, brackets, limit, bracket_count) ==
    LET At(next) ==
            IF ScCh(sc, next) = "["
            THEN BracketScan(sc, brackets \ {next}, limit, bracket_count + 1)
            ELSE IF bracket_count - 1 = 0 THEN [closed |-> TRUE, last |-> next]
            ELSE BracketScan(sc, brackets \ {next}, limit, bracket_count - 1)
    IN  IF brackets = {} THEN [closed |-> FALSE, last |-> limit] ELSE At(Min(brackets))

ScanLimit_WholeScript(sc, array_start) == ScLen(sc)

\* min(array_start + 50000, len(script_content)), as the last index examined
ScanLimit(sc, array_start) ==
    IF array_start + ScanWindow - 1 < ScLen(sc) THEN array_start + ScanWindow - 1 ELSE ScLen(sc)

NoScan == [scanned |-> FALSE, array_start |-> 0, closed |-> FALSE, examined |-> 0,
           raised |-> FALSE, links |-> {}, declared |-> <<>>]

\* The statements inside the inner try for one script whose block opens at
\* array_start: what the bracket loop did, whether json.loads or
\* extract_links_from_hydration_data raised, and otherwise the links and the
\* declared count of the block
ScanTry(sc, array_start) ==
    LET Extracted(found, extracted) ==
            IF extracted.raised THEN [found EXCEPT !.raised = TRUE]
            ELSE [found EXCEPT !.links = extracted.links, !.declared = extracted.declared]
        Loaded(found, loaded) ==
            IF ~loaded.ok THEN [found EXCEPT !.raised = TRUE]
            ELSE Extracted(found, extract_links_from_hydration_data(loaded.v))
        Scanned(scan) ==
            Loaded([NoScan EXCEPT !.scanned = TRUE, !.array_start = array_start,
                                  !.closed = scan.closed,
                                  !.examined = scan.last - array_start + 1],
                   json_loads(IF scan.closed THEN ScSliceText(sc, array_start, scan.last) ELSE ""))
        Within(limit) == Scanned(BracketScan(sc, Brackets(sc, array_start, limit), limit, 0))
    IN  Within(ScanLimit(sc, array_start))

\* The body of "for script in script_tags" for one script: the guards, the try,
\* and "except Exception: pass", after which the script has contributed nothing
ScanScript(sc) ==
    LET Caught(tried) ==
            IF tried.raised
            THEN [tried EXCEPT !.raised = FALSE, !.links = {}, !.declared = <<>>]
            ELSE tried
        Block(array_start) == IF array_start = 0 THEN NoScan ELSE Caught(ScanTry(sc, array_start))
        Marker_(start_idx) == IF start_idx = 0 THEN NoScan ELSE Block(ScFind(sc, "[", start_idx))
    IN  IF ScLen(sc) = 0 THEN NoScan
        ELSE IF ~(ScContains(sc, "__sc_hydration") \/ ScContains(sc, "sc_hydration")) THEN NoScan
        ELSE Marker_(ScFind(sc, "window.__sc_hydration", 1))

\* The printable ASCII characters in code point order (the grave accent, which a
\* string of this language cannot hold, left out)
Ascii == " !\"#$%&'()*+,-./0123456789:;<=>?@ABCDEFGHIJKLMNOPQRSTUVWXYZ[\\]^_abcdefghijklmnopqrstuvwxyz{|}~"

\* a < b on str
StrLess(a, b) ==
    LET diff == {k \in 1..(IF Len(a) < Len(b) THEN Len(a) ELSE Len(b)) : Ch(a, k) # Ch(b, k)}
    IN  IF diff = {} THEN Len(a) < Len(b)
        ELSE Find(Ascii, Ch(a, Min(diff)), 1) < Find(Ascii, Ch(b, Min(diff)), 1)

RECURSIVE sorted_Descending(_)
sorted_Descending(S) ==
    IF S = {} THEN <<>>
    ELSE LET greatest == CHOOSE x \in S : \A y \in S \ {x} : StrLess(y, x)
         IN  <<greatest>> \o sorted_Descending(S \ {greatest})

\* sorted(S) for a set of str
RECURSIVE sorted(_)
sorted(S) ==
    IF S = {} THEN <<>>
    ELSE LET least == CHOOSE x \in S : \A y \in S \ {x} : StrLess(x, y)
         IN  <<least>> \o sorted(S \ {least})

WordChars == LowerAlpha \o UpperAlpha \o Digits \o "_"
IsWordChar(c) == c # "" /\ Contains(WordChars, c)
IsDigit(c) == c \in DigitChars

\* The index after the run of whitespace that starts at i
RECURSIVE SpaceEnd(_, _)
SpaceEnd(s, i) == IF Ch(s, i) \in Whitespace THEN SpaceEnd(s, i + 1) ELSE i

\* re.search(r"Contains tracks\s*(\d+)", text, re.IGNORECASE): <<group 1>> or <<>>
ContainsTracksMatch(text) ==
    LET Group(d) == <<Slice(text, d, DigitsEnd(text, d) - 1)>>
        First(hits) == IF hits = {} THEN <<>> ELSE Group(SpaceEnd(text, Min(hits) + 15))
    IN  First({i \in 1..Len(text) :
                  /\ Lower(Slice(text, i, i + 14)) = "contains tracks"
                  /\ IsDigit(Ch(text, SpaceEnd(text, i + 15)))})

\* re.search(r"\b(\d{1,4})\s+tracks?\b", text, re.IGNORECASE): <<group 1>> or <<>>
InlineTracksMatch(text) ==
    LET Word(w) ==
            /\ Lower(Slice(text, w, w + 4)) = "track"
            /\ \/ ~IsWordChar(Ch(text, w + 5))
               \/ Lower(Ch(text, w + 5)) = "s" /\ ~IsWordChar(Ch(text, w + 6))
        Spaces(e, w) == w > e /\ Word(w)
        Run(i, e) == e - i <= 4 /\ Spaces(e, SpaceEnd(text, e))
        Group(i) == <<Slice(text, i, DigitsEnd(text, i) - 1)>>
        First(hits) == IF hits = {} THEN <<>> ELSE Group(Min(hits))
    IN  First({i \in 1..Len(text) :
                  /\ IsDigit(Ch(text, i)) /\ ~IsWordChar(Ch(text, i - 1))
                  /\ Run(i, DigitsEnd(text, i))})

\* int(content) of an attribute or matched text: <<n>>, or <<>> for ValueError
IntOfText(content) == IntOf(JStr(content))

\* extract_declared_track_count: the numTracks meta, then the two text patterns
extract_declared_track_count(file) ==
    LET Inline(m) == IF m # <<>> THEN IntOfText(m[1]) ELSE <<>>
        Text(m) == IF m # <<>> THEN IntOfText(m[1]) ELSE Inline(InlineTracksMatch(file.text))
        Meta(n) == IF n # <<>> THEN n ELSE Text(ContainsTracksMatch(file.text))
    IN  IF file.meta # <<>> /\ file.meta[1] # "" THEN Meta(IntOfText(file.meta[1]))
        ELSE Text(ContainsTracksMatch(file.text))

(***************************************************************************)
(* Dicts of lists (defaultdict(list)): entries [key, records] in insertion *)
(* order                                                                   *)
(***************************************************************************)
DictKeys(d) == {d[k].key : k \in DOMAIN d}

\* d[key], or [] when the key is absent (without inserting it)
DictGet(d, key) ==
    IF key \in DictKeys(d)
    THEN d[CHOOSE k \in DOMAIN d : d[k].key = key].records
    ELSE <<>>

\* A slip: the records are put in front of those already under the key
DictExtend_Prepend(d, key, records) ==
    IF key \in DictKeys(d)
    THEN [k \in DOMAIN d |->
            IF d[k].key = key THEN [d[k] EXCEPT !.records = records \o @] ELSE d[k]]
    ELSE Append(d, [key |-> key, records |-> records])

\* d[key].extend(records) on a defaultdict(list): a new key goes last
DictExtend(d, key, records) ==
    IF key \in DictKeys(d)
    THEN [k \in DOMAIN d |->
            IF d[k].key = key THEN [d[k] EXCEPT !.records = @ \o records] ELSE d[k]]
    ELSE Append(d, [key |-> key, records |-> records])

\* d[key].append(record)
DictAppend(d, key, record) == DictExtend(d, key, <<record>>)

(***************************************************************************)
(* The item link classifier: normalize_link, analyze_links, extract_title  *)
(***************************************************************************)
LINK_KEYWORDS == {"download", "free download", "free d/l", "buy", "purchase", "premiere", "kup"}

\* STORE_DOMAINS in its dict order
STORE_DOMAINS ==
    << [category |-> "bandcamp", domains |-> {"bandcamp.com"}],
       [category |-> "beatport", domains |-> {"beatport.com"}],
       [category |-> "junodownload", domains |-> {"junodownload.com", "juno.co.uk"}],
       [category |-> "hypeddit", domains |-> {"hypeddit.com", "hypd.it"}] >>

StoreCategories == {STORE_DOMAINS[k].category : k \in DOMAIN STORE_DOMAINS}

CATEGORY_NAMES == <<"hypeddit", "bandcamp", "beatport", "junodownload", "others">>

LinkRecord(category, title, trackUrl, link_url, link_text) ==
    [category |-> category, title |-> title, track_url |-> trackUrl,
     link_url |-> link_url, link_text |-> link_text]

normalize_link(trackUrl, href) ==
    LET From(parsed) ==
            IF StartsWith(href, "//") THEN parsed.scheme \o ":" \o href
            ELSE IF StartsWith(href, "/") THEN parsed.scheme \o "://" \o parsed.netloc \o href
            ELSE IF StartsWith(href, "http://") \/ StartsWith(href, "https://") THEN href
            ELSE urljoin(trackUrl, href)
    IN  From(urlparse(trackUrl))

\* any(keyword in text_lower for keyword in LINK_KEYWORDS)
HasLinkKeyword(text_lower) == \E keyword \in LINK_KEYWORDS : Contains(text_lower, keyword)

\* The for-loop over STORE_DOMAINS.items(): the first category one of whose
\* domains occurs in the link's domain, None when there is none
matched_category(domain) ==
    LET First(hits) == IF hits = {} THEN <<>> ELSE <<STORE_DOMAINS[Min(hits)].category>>
    IN  First({k \in DOMAIN STORE_DOMAINS :
                  \E target \in STORE_DOMAINS[k].domains : Contains(domain, target)})

\* The body of the loop over soup.select("a[href]") for one anchor, given its
\* stripped href and text: the loop's state after it
AnalyzeAnchor(trackUrl, st, raw_href, text) ==
    LET Put(link_url, matched) ==
            IF matched # <<>>
            THEN [st EXCEPT !.known_store_found = TRUE,
                            !.categories = DictAppend(@, matched[1],
                                LinkRecord(matched[1], "", trackUrl, link_url, text))]
            ELSE [st EXCEPT !.unknown_store_links =
                                Append(@, [link_url |-> link_url, text |-> text])]
        Signal(link_url) == Put(link_url, matched_category(Lower(urlparse(link_url).netloc)))
    IN  IF raw_href = "" THEN st
        ELSE IF ~HasLinkKeyword(Lower(text)) THEN st
        ELSE Signal(normalize_link(trackUrl, raw_href))

\* The loop over soup.select("a[href]"), from anchor k on
RECURSIVE AnalyzeLoop(_, _, _, _)
AnalyzeLoop(trackUrl, anchors, k, st) ==
    IF k > Len(anchors) THEN st
    ELSE AnalyzeLoop(trackUrl, anchors, k + 1,
                     AnalyzeAnchor(trackUrl, st, Strip(anchors[k].href), Strip(anchors[k].text)))

\* The "others" records of the buffered unknown-store links
UnknownRecords(trackUrl, unknown) ==
    [k \in DOMAIN unknown |->
        LinkRecord("others", "", trackUrl, unknown[k].link_url, unknown[k].text)]

\* A slip: the buffered unknown-store links are flushed although a known store was found
AnalyzeFinish_AlwaysFlush(trackUrl, st) ==
    IF st.unknown_store_links # <<>>
    THEN DictExtend(st.categories, "others", UnknownRecords(trackUrl, st.unknown_store_links))
    ELSE IF st.known_store_found THEN st.categories
    ELSE DictAppend(st.categories, "others",
                    LinkRecord("others", "", trackUrl, trackUrl, "No store link found"))

\* A slip: no placeholder record when the page has no link at all
AnalyzeFinish_NoPlaceholder(trackUrl, st) ==
    IF st.known_store_found \/ st.unknown_store_links = <<>> THEN st.categories
    ELSE DictExtend(st.categories, "others", UnknownRecords(trackUrl, st.unknown_store_links))

\* What analyze_links does after the loop with the loop's state
AnalyzeFinish(trackUrl, st) ==
    IF st.known_store_found THEN st.categories
    ELSE IF st.unknown_store_links # <<>>
         THEN DictExtend(st.categories, "others",
                         UnknownRecords(trackUrl, st.unknown_store_links))
    ELSE DictAppend(st.categories, "others",
                    LinkRecord("others", "", trackUrl, trackUrl, "No store link found"))

analyze_links(trackUrl, page) ==
    AnalyzeFinish(trackUrl,
        AnalyzeLoop(trackUrl, page.anchors, 1,
            [categories |-> <<>>, known_store_found |-> FALSE, unknown_store_links |-> <<>>]))

TitleSuffixes == <<" | SoundCloud", " | Listen online for free on SoundCloud">>

extract_title(page) ==
    LET Cut(title, hits) ==
            IF hits = {} THEN title
            ELSE Strip(Slice(title, 1, Find(title, TitleSuffixes[Min(hits)], 1) - 1))
        Of(title) == Cut(title, {k \in DOMAIN TitleSuffixes : Contains(title, TitleSuffixes[k])})
    IN  IF page.title # <<>> /\ page.title[1] # "" THEN Of(Strip(page.title[1]))
        ELSE "Unknown title"

(***************************************************************************)
(* SpecAnalyze: analyze_links on one item page                             *)
(***************************************************************************)
MaxAnchors == 3

ItemUrls == {"https://soundcloud.com/ownerA/trackA", "https://soundcloud.com/ownerA/trackB"}

AnchorPool ==
    { [href |-> "https://artist.bandcamp.com/track/x", text |-> "Free Download"],
      [href |-> "https://www.beatport.com/track/x/1", text |-> " BUY "],
      [href |-> "//hypd.it/abc", text |-> "Premiere"],
      [href |-> "https://shop.example.org/x", text |-> "Buy now"],
      [href |-> "https://bandcamp.com.evil.org/x", text |-> "download"],
      [href |-> "https://bandcamp.com/", text |-> "Listen"],
      [href |-> "/ownerA/likes", text |-> "Purchase"],
      [href |-> "  ", text |-> "Kup"] }

AnchorLists == UNION {[1..n -> AnchorPool] : n \in 0..MaxAnchors}

Soups == {[title |-> <<>>, anchors |-> as] : as \in AnchorLists}

IdleReserved == seg_list = <<>> /\ verdict = <<>> /\ kept_links = {} /\ rpc = "idle"
IdleClean == url = "" /\ cleaned = <<>> /\ twice = <<>> /\ cpc = "idle"
IdleAnalyze == track_url = "" /\ soup = <<>> /\ per_track = <<>> /\ apc = "idle"
IdleCollect ==
    /\ track_list = <<>> /\ idx = 0 /\ fetched = <<>>
    /\ categorized = <<>> /\ summary = <<>> /\ kpc = "idle"

NoFile == [anchors |-> <<>>, scripts |-> <<>>, meta |-> <<>>, text |-> ""]
IdleLoad ==
    /\ html = NoFile /\ track_links = {} /\ hydration_links = {} /\ declared_count = <<>>
    /\ script_idx = 0 /\ scans = <<>> /\ all_links = <<>> /\ previous = <<>> /\ lpc = "idle"

AnalyzeInit ==
    /\ track_url = "https://soundcloud.com/ownerA/trackA"
    /\ soup \in Soups
    /\ per_track = <<>>
    /\ apc = "start"
    /\ IdleReserved /\ IdleClean /\ IdleCollect /\ IdleLoad

Analyze ==
    /\ apc = "start"
    /\ per_track' = analyze_links(track_url, soup)
    /\ apc' = "done"
    /\ UNCHANGED <<track_url, soup, cleanVars, reservedVars, collectVars, loadVars>>

AnalyzeNext == Analyze

SpecAnalyze == AnalyzeInit /\ [][AnalyzeNext]_vars

\* An anchor carries a signal: its href is not blank and its lower-cased text
\* contains a link keyword.
SignalAnchor(a) == Strip(a.href) # "" /\ HasLinkKeyword(Lower(Strip(a.text)))

\* The absolute link of an anchor on the page of item t, and its host
AnchorLink(t, a) == normalize_link(t, Strip(a.href))
AnchorHost(t, a) == Lower(urlparse(AnchorLink(t, a)).netloc)

\* A signal-bearing anchor that matches a known storefront
StoreAnchor(t, a) == SignalAnchor(a) /\ matched_category(AnchorHost(t, a)) # <<>>

\* The records the signal-bearing anchors matched to a storefront give, in page order
RECURSIVE StoreRecords(_, _)
StoreRecords(t, anchors) ==
    LET Record(a, link, matched) ==
            IF matched = <<>> THEN <<>>
            ELSE <<LinkRecord(matched[1], "", t, link, Strip(a.text))>>
        Linked(a, link) == Record(a, link, matched_category(Lower(urlparse(link).netloc)))
        Of(a) == IF SignalAnchor(a) THEN Linked(a, AnchorLink(t, a)) ELSE <<>>
    IN  IF anchors = <<>> THEN <<>>
        ELSE Of(anchors[1]) \o StoreRecords(t, Tail(anchors))

\* The records of a sequence filed under storefront c, in order
RecordsUnder(records, c) ==
    LET Under(r) == r.category = c IN SelectSeq(records, Under)

\* C4: on a page where some signal-bearing anchor matches a known storefront,
\* analyze_links returns no 'others' entry and no 'others' record; what it returns is,
\* per storefront, exactly the records of the anchors matched to it, whether the
\* unknown-host anchors came before or after.
C4_Precedence ==
    LET Holds(expected) ==
            expected # <<>> =>
               /\ "others" \notin DictKeys(per_track)
               /\ DictKeys(per_track) \subseteq StoreCategories
               /\ \A c \in StoreCategories : DictGet(per_track, c) = RecordsUnder(expected, c)
               /\ \A k \in DOMAIN per_track : per_track[k].records # <<>>
    IN  apc = "done" => Holds(StoreRecords(track_url, soup.anchors))

\* A storefront anchor between two keyword-bearing anchors to unknown hosts
C4_Witness ==
    /\ apc = "done"
    /\ Len(soup.anchors) = 3
    /\ StoreAnchor(track_url, soup.anchors[2])
    /\ \A k \in {1, 3} : SignalAnchor(soup.anchors[k]) /\ ~StoreAnchor(track_url, soup.anchors[k])
    /\ DictKeys(per_track) = {"bandcamp"}

NoLinkRecord(t) == LinkRecord("others", "", t, t, "No store link found")

\* C5: a page without any signal-bearing anchor gives exactly one record, under
\* 'others', whose link is the item URL and whose text is the 'no link found'
\* placeholder; and no page gives an empty result.
C5_TotalCoverage ==
    apc = "done" =>
        /\ (\A k \in DOMAIN soup.anchors : ~SignalAnchor(soup.anchors[k])) =>
               per_track = <<[key |-> "others", records |-> <<NoLinkRecord(track_url)>>]>>
        /\ per_track # <<>>
        /\ \A k \in DOMAIN per_track : per_track[k].records # <<>>

\* A page with anchors, none of them signal-bearing, analysed
C5_Witness ==
    /\ apc = "done"
    /\ Len(soup.anchors) >= 2
    /\ \A k \in DOMAIN soup.anchors : ~SignalAnchor(soup.anchors[k])
    /\ DictGet(per_track, "others") = <<NoLinkRecord(track_url)>>


\* s.endswith(suffix)
EndsWith(s, suffix) ==
    Len(suffix) <= Len(s) /\ SubSeq(s, Len(s) - Len(suffix) + 1, Len(s)) = suffix

\* The first storefront of the table one of whose domains the host ends with
SuffixCategory(host) ==
    LET First(hits) == IF hits = {} THEN <<>> ELSE <<STORE_DOMAINS[Min(hits)].category>>
    IN  First({k \in DOMAIN STORE_DOMAINS :
                  \E target \in STORE_DOMAINS[k].domains : EndsWith(host, target)})

\* The records of the signal-bearing anchors whose host ends with a listed domain,
\* each under the first storefront that lists such a domain, in page order
RECURSIVE SuffixRecords(_, _)
SuffixRecords(t, anchors) ==
    LET Record(a, link, matched) ==
            IF matched = <<>> THEN <<>>
            ELSE <<LinkRecord(matched[1], "", t, link, Strip(a.text))>>
        Linked(a, link) == Record(a, link, SuffixCategory(Lower(urlparse(link).netloc)))
        Of(a) == IF SignalAnchor(a) THEN Linked(a, AnchorLink(t, a)) ELSE <<>>
    IN  IF anchors = <<>> THEN <<>>
        ELSE Of(anchors[1]) \o SuffixRecords(t, Tail(anchors))

\* C14: analyze_links files a signal-bearing anchor under storefront T exactly when
\* the host of its link ends with a domain listed for T and no storefront earlier in
\* the table matches; an anchor whose host ends with no listed domain is under no
\* storefront.  One anchor "Free Download" to bandcamp.com gives one record, under
\* bandcamp.
C14_SuffixMatch ==
    LET Holds(expected) ==
            /\ \A c \in StoreCategories : DictGet(per_track, c) = RecordsUnder(expected, c)
            /\ expected = <<>> => DictKeys(per_track) = {"others"}
    IN  apc = "done" => Holds(SuffixRecords(track_url, soup.anchors))

(***************************************************************************)
(* fetch_track_page, collect_track_data, summarize_categories              *)
(***************************************************************************)
\* What session.get does for one item: it raises a RequestException, or it returns
\* a response with a status code and a body.
RequestError == [kind |-> "error"]
Response(status, page) == [kind |-> "response", status |-> status, page |-> page]

\* fetch_track_page: None for a request error or a status >= 400, else the parsed page
fetch_track_page(outcome) ==
    IF outcome.kind = "error" THEN <<>>
    ELSE IF outcome.status >= 400 THEN <<>>
    ELSE <<outcome.page>>

\* for record in records: record.title = title
WithTitle(records, title) == [k \in DOMAIN records |-> [records[k] EXCEPT !.title = title]]

\* for category, records in per_track.items(): ... categorized[category].extend(records)
RECURSIVE FoldPerTrack(_, _, _)
FoldPerTrack(cat, perTrack, title) ==
    IF perTrack = <<>> THEN cat
    ELSE FoldPerTrack(DictExtend(cat, perTrack[1].key, WithTitle(perTrack[1].records, title)),
                      Tail(perTrack), title)

\* A slip: a failed fetch leaves no record behind
CollectOne_NoSynthetic(cat, trackUrl, fetchedSoup) ==
    IF fetchedSoup = <<>> THEN cat
    ELSE FoldPerTrack(cat, analyze_links(trackUrl, fetchedSoup[1]), extract_title(fetchedSoup[1]))

\* The body of the loop of collect_track_data for one item and what the fetch gave
CollectOne(cat, trackUrl, fetchedSoup) ==
    LET Filed(title, analysed) ==
            FoldPerTrack(cat,
                         IF analysed = <<>>
                         THEN <<[key |-> "others", records |->
                                   <<LinkRecord("others", title, trackUrl, trackUrl, "No links found")>>]>>
                         ELSE analysed,
                         title)
    IN  IF fetchedSoup = <<>>
        THEN DictAppend(cat, "others",
                 LinkRecord("others", "Unknown title", trackUrl, trackUrl, "Could not fetch track page"))
        ELSE Filed(extract_title(fetchedSoup[1]), analyze_links(trackUrl, fetchedSoup[1]))

\* A slip: the set is built from the records' link_url
tracks_in_other_categories_ByLink(cat) ==
    UNION { {cat[k].records[j].link_url : j \in DOMAIN cat[k].records} :
            k \in {e \in DOMAIN cat : cat[e].key # "others" /\ cat[e].key # "other"} }

\* The track URLs of the records filed under a key other than "others" and "other"
tracks_in_other_categories(cat) ==
    UNION { {cat[k].records[j].track_url : j \in DOMAIN cat[k].records} :
            k \in {e \in DOMAIN cat : cat[e].key # "others" /\ cat[e].key # "other"} }

CategorySet == {CATEGORY_NAMES[k] : k \in DOMAIN CATEGORY_NAMES}

output_category(key) ==
    LET renamed == IF key = "other" THEN "others" ELSE key
    IN  IF renamed \notin CategorySet THEN "others" ELSE renamed

Simplified(record) ==
    [title |-> record.title, track_url |-> record.track_url, shop_link |-> record.link_url]

\* The inner loop of summarize_categories over the records of one entry
RECURSIVE SummarizeRecords(_, _, _, _)
SummarizeRecords(sum, out, records, confirmed) ==
    IF records = <<>> THEN sum
    ELSE SummarizeRecords(
             IF out = "others" /\ records[1].track_url \in confirmed THEN sum
             ELSE DictAppend(sum, out, Simplified(records[1])),
             out, Tail(records), confirmed)

\* The outer loop of summarize_categories over categorized.items()
RECURSIVE SummarizeEntries(_, _, _)
SummarizeEntries(sum, cat, confirmed) ==
    IF cat = <<>> THEN sum
    ELSE SummarizeEntries(
             SummarizeRecords(sum, output_category(cat[1].key), cat[1].records, confirmed),
             Tail(cat), confirmed)

summarize_categories(cat) ==
    SummarizeEntries([k \in DOMAIN CATEGORY_NAMES |-> [key |-> CATEGORY_NAMES[k], records |-> <<>>]],
                     cat, tracks_in_other_categories(cat))

(***************************************************************************)
(* SpecCollect: collect_track_data over an item list, then                 *)
(* summarize_categories, as handle_dig runs them                           *)
(***************************************************************************)
MaxTracks == 2

CollectUrls == <<"https://soundcloud.com/ownerA/trackA", "https://soundcloud.com/ownerA/trackB",
                 "https://soundcloud.com/ownerB/trackC">>

\* The item lists load_tracks_from_html_file hands over: sorted, without duplicates
TrackLists ==
    {tl \in UNION {[1..n -> DOMAIN CollectUrls] : n \in 0..MaxTracks} :
        \A i \in 1..(Len(tl) - 1) : tl[i] < tl[i + 1]}

BandcampAnchor == [href |-> "https://artist.bandcamp.com/track/x", text |-> "Free Download"]
BeatportAnchor == [href |-> "https://www.beatport.com/track/x/1", text |-> " BUY "]
UnknownAnchor == [href |-> "https://shop.example.org/x", text |-> "Buy now"]
PlainAnchor == [href |-> "/ownerA", text |-> "ownerA"]
AlbumAnchor == [href |-> "https://artist.bandcamp.com/album/y", text |-> "Purchase"]
ShopAnchor == [href |-> "https://store.example.net/y", text |-> "download"]

CollectSoups ==
    { [title |-> <<"Track | SoundCloud">>, anchors |-> <<PlainAnchor>>],
      [title |-> <<>>, anchors |-> <<UnknownAnchor, BandcampAnchor, BeatportAnchor>>],
      [title |-> <<"Track by Owner | Listen online for free on SoundCloud">>,
       anchors |-> <<UnknownAnchor, ShopAnchor>>],
      [title |-> <<" Track ">>, anchors |-> <<BandcampAnchor, UnknownAnchor, AlbumAnchor>>] }

FetchOutcomes ==
    {RequestError} \cup {Response(404, [title |-> <<"Not found">>, anchors |-> <<BandcampAnchor>>])}
                   \cup {Response(200, page) : page \in CollectSoups}

CollectInit ==
    /\ track_list \in {[k \in DOMAIN tl |-> CollectUrls[tl[k]]] : tl \in TrackLists}
    /\ idx = 1
    /\ fetched = <<>>
    /\ categorized = <<>>
    /\ summary = <<>>
    /\ kpc = "loop"
    /\ IdleReserved /\ IdleClean /\ IdleAnalyze /\ IdleLoad

\* One turn of the loop whose fetch gives None
CollectFailed ==
    /\ kpc = "loop" /\ idx <= Len(track_list)
    /\ \E outcome \in FetchOutcomes :
         /\ fetch_track_page(outcome) = <<>>
         /\ categorized' = CollectOne(categorized, track_list[idx], <<>>)
         /\ fetched' = Append(fetched, [track_url |-> track_list[idx], outcome |-> outcome])
    /\ idx' = idx + 1
    /\ UNCHANGED <<track_list, summary, kpc, cleanVars, reservedVars, analyzeVars, loadVars>>

\* One turn of the loop whose fetch gives a page
CollectAnalyzed ==
    /\ kpc = "loop" /\ idx <= Len(track_list)
    /\ \E outcome \in FetchOutcomes :
         /\ fetch_track_page(outcome) # <<>>
         /\ categorized' = CollectOne(categorized, track_list[idx], fetch_track_page(outcome))
         /\ fetched' = Append(fetched, [track_url |-> track_list[idx], outcome |-> outcome])
    /\ idx' = idx + 1
    /\ UNCHANGED <<track_list, summary, kpc, cleanVars, reservedVars, analyzeVars, loadVars>>

\* The list is exhausted (or was empty): collect_track_data returns categorized
CollectReturn ==
    /\ kpc = "loop" /\ idx > Len(track_list)
    /\ kpc' = "collected"
    /\ UNCHANGED <<track_list, idx, fetched, categorized, summary, cleanVars, reservedVars, analyzeVars, loadVars>>

\* summary = summarize_categories(categorized)
Summarize ==
    /\ kpc = "collected"
    /\ summary' = summarize_categories(categorized)
    /\ kpc' = "done"
    /\ UNCHANGED <<track_list, idx, fetched, categorized, cleanVars, reservedVars, analyzeVars, loadVars>>

CollectNext == CollectFailed \/ CollectAnalyzed \/ CollectReturn \/ Summarize

SpecCollect == CollectInit /\ [][CollectNext]_vars

\* The item URLs in the sequence of category c of a summary
SummaryUrls(sum, c) == {DictGet(sum, c)[j].track_url : j \in DOMAIN DictGet(sum, c)}

\* C3: after collect_track_data and summarize_categories every item URL is in the
\* sequence of at most one category of the summary.
C3_Exclusive ==
    kpc = "done" =>
        \A k \in DOMAIN track_list :
            Cardinality({c \in CategorySet : track_list[k] \in SummaryUrls(summary, c)}) <= 1

\* The fetch gave None: a request error or a status >= 400
FetchFailed(outcome) == outcome.kind = "error" \/ outcome.status >= 400

\* The records of item u under key c of the running dict
RECURSIVE RecordsOfItem(_, _)
RecordsOfItem(records, u) ==
    IF records = <<>> THEN <<>>
    ELSE (IF records[1].track_url = u THEN <<records[1]>> ELSE <<>>) \o RecordsOfItem(Tail(records), u)

CouldNotFetch(u) == LinkRecord("others", "Unknown title", u, u, "Could not fetch track page")

\* C7: the loop takes the items in list order, each once, whatever the fetches give;
\* an item whose fetch failed has exactly one record, the 'could not fetch' record
\* under 'others' with the item URL as its link; an item fetched has the records its
\* page's classification gives; every item taken has at least one record.
C7_FetchFailure ==
    kpc \in {"loop", "collected", "done"} =>
        /\ Len(fetched) = idx - 1
        /\ idx <= Len(track_list) + 1
        /\ kpc # "loop" => Len(fetched) = Len(track_list)
        /\ \A k \in DOMAIN fetched :
              LET u == track_list[k]
                  o == fetched[k].outcome
              IN  /\ fetched[k].track_url = u
                  /\ \E c \in DictKeys(categorized) : RecordsOfItem(DictGet(categorized, c), u) # <<>>
                  /\ FetchFailed(o) =>
                        \A c \in DictKeys(categorized) :
                            RecordsOfItem(DictGet(categorized, c), u) =
                                IF c = "others" THEN <<CouldNotFetch(u)>> ELSE <<>>
                  /\ ~FetchFailed(o) =>
                        \A c \in DictKeys(categorized) :
                            RecordsOfItem(DictGet(categorized, c), u) =
                                WithTitle(DictGet(analyze_links(u, o.page), c), extract_title(o.page))

\* A failed fetch followed by a fetched and classified item
C7_Witness ==
    /\ kpc = "collected"
    /\ Len(track_list) = 2
    /\ FetchFailed(fetched[1].outcome)
    /\ ~FetchFailed(fetched[2].outcome)
    /\ DictGet(categorized, "others") = <<CouldNotFetch(track_list[1])>>
    /\ "bandcamp" \in DictKeys(categorized)


\* The position of an item in the input list (the list has no duplicates)
ItemIndex(u) == CHOOSE k \in DOMAIN track_list : track_list[k] = u

\* The absolute links of the anchors of the page fetched for item u, in page order
PageLinks(u) ==
    LET Of(page) ==
            IF page = <<>> THEN <<>>
            ELSE [k \in DOMAIN page[1].anchors |-> AnchorLink(u, page[1].anchors[k])]
    IN  Of(fetch_track_page(fetched[ItemIndex(u)].outcome))

\* The link of a Link Record or of an entry of the summary
RecordLink(r) == IF "shop_link" \in DOMAIN r THEN r.shop_link ELSE r.link_url

\* In a sequence of records: a later item's records never precede an earlier
\* item's, and two records of one item stand in the order of their anchors
InItemAndAnchorOrder(records) ==
    \A i, j \in DOMAIN records :
        i < j =>
            /\ ItemIndex(records[i].track_url) <= ItemIndex(records[j].track_url)
            /\ records[i].track_url = records[j].track_url =>
                   \E p, q \in DOMAIN PageLinks(records[i].track_url) :
                       /\ p <= q
                       /\ PageLinks(records[i].track_url)[p] = RecordLink(records[i])
                       /\ PageLinks(records[i].track_url)[q] = RecordLink(records[j])

\* Every sequence of the running dict is a prefix of its sequence after the step
AppendedOnly ==
    \A k \in DOMAIN categorized :
        /\ k \in DOMAIN categorized'
        /\ categorized'[k].key = categorized[k].key
        /\ Len(categorized[k].records) <= Len(categorized'[k].records)
        /\ SubSeq(categorized'[k].records, 1, Len(categorized[k].records)) = categorized[k].records

\* C15: in every sequence of the running dict of collect_track_data, at every turn
\* of its loop, and in every sequence of the summary built from it, the records of a
\* later item never precede those of an earlier item and the records of one item
\* keep the order of their anchors; a step only ever appends to the running
\* sequences.
C15_Ordering ==
    /\ [](\A k \in DOMAIN categorized : InItemAndAnchorOrder(categorized[k].records))
    /\ [](kpc = "done" => \A k \in DOMAIN summary : InItemAndAnchorOrder(summary[k].records))
    /\ [][AppendedOnly]_vars

\* Two items fetched, the second with two storefront anchors of one category after
\* an unknown one: a sequence of the summary holds a record of the first item and
\* then two of the second, in anchor order
C15_Witness ==
    /\ kpc = "done"
    /\ Len(track_list) = 2
    /\ fetched[1].outcome = Response(200, [title |-> <<>>, anchors |-> <<UnknownAnchor, BandcampAnchor, BeatportAnchor>>])
    /\ fetched[2].outcome = Response(200, [title |-> <<" Track ">>, anchors |-> <<BandcampAnchor, UnknownAnchor, AlbumAnchor>>])
    /\ Len(DictGet(summary, "bandcamp")) = 3
    /\ DictGet(summary, "bandcamp")[2].shop_link = BandcampAnchor.href
    /\ DictGet(summary, "bandcamp")[3].shop_link = AlbumAnchor.href
    /\ DictGet(summary, "bandcamp")[1].track_url = track_list[1]
    /\ DictGet(summary, "bandcamp")[3].track_url = track_list[2]

(***************************************************************************)
(* SpecSummarize: summarize_categories on any mapping, such as results     *)
(* merged from separate runs                                               *)
(***************************************************************************)
MaxEntries == 2
MaxRecords == 2

SummarizeKeys == {"bandcamp", "others", "other", "spotify"}

SummarizeRecordPool(key) ==
    {LinkRecord(key, "Track", u, "https://shop.example.org/x", "Buy now") :
        u \in {"https://soundcloud.com/ownerA/trackA", "https://soundcloud.com/ownerA/trackB"}}

\* The dicts of up to MaxEntries distinct keys, each with 1..MaxRecords records
Mappings ==
    UNION { {d \in [1..n -> UNION {[key : {key}, records : UNION {[1..m -> SummarizeRecordPool(key)] : m \in 1..MaxRecords}] : key \in SummarizeKeys}] :
                \A a, b \in 1..n : a # b => d[a].key # d[b].key} :
            n \in 0..MaxEntries }

SummarizeInit ==
    /\ categorized \in Mappings
    /\ track_list = <<>> /\ idx = 0 /\ fetched = <<>>
    /\ summary = <<>>
    /\ kpc = "collected"
    /\ IdleReserved /\ IdleClean /\ IdleAnalyze /\ IdleLoad

SpecSummarize == SummarizeInit /\ [][Summarize]_vars

\* C8: in the summary, an item URL that is in the sequence of a storefront category
\* is not in the 'others' sequence.
C8_CatchAllExcluded ==
    kpc = "done" =>
        \A c \in CategorySet \ {"others"} : SummaryUrls(summary, c) \cap SummaryUrls(summary, "others") = {}

\* A mapping that names one item under a storefront and under 'others', and another
\* item under 'others' only, summarized
C8_Witness ==
    /\ kpc = "done"
    /\ \E u \in SummaryUrls(summary, "bandcamp") :
          \E j \in DOMAIN DictGet(categorized, "others") : DictGet(categorized, "others")[j].track_url = u
    /\ SummaryUrls(summary, "others") # {}


\* The item URLs of the records filed under a storefront category of the closed set
StorefrontItems(cat) ==
    UNION { {cat[k].records[j].track_url : j \in DOMAIN cat[k].records} :
            k \in {e \in DOMAIN cat : cat[e].key \in CategorySet \ {"others"}} }

\* C12: every record filed under the legacy tag 'other' or under a tag outside the
\* closed set is in the 'others' sequence of the summary unless its item has a
\* record under a storefront category of the closed set; so an item whose only
\* records sit under an unrecognized tag is in the 'others' sequence.
C12_CoercedToCatchAll ==
    kpc = "done" =>
        \A k \in DOMAIN categorized :
            (categorized[k].key = "other" \/ categorized[k].key \notin CategorySet) =>
                \A j \in DOMAIN categorized[k].records :
                    categorized[k].records[j].track_url \notin StorefrontItems(categorized) =>
                        \E i \in DOMAIN DictGet(summary, "others") :
                            DictGet(summary, "others")[i] = Simplified(categorized[k].records[j])

(***************************************************************************)
(* SpecClean: clean_track_url applied to a URL and to its own result       *)
(***************************************************************************)
CleanBases == {"https://x/a/b", "https://soundcloud.com/ownerA/trackA", "HTTPS://SoundCloud.com/a/b",
               "/a/b", "https://x"}
CleanQueries == {"", "?", "?in=abc", "?in=abc&q=1", "?q=1", "?q=1&in=abc&r=2", "?&q=1",
                 "?in=a&in=b", "??", "?q=?", "?in=1&?"}
CleanFragments == {"", "#", "#f", "#f?in=1"}
CleanInputs == {b \o q \o f : b \in CleanBases, q \in CleanQueries, f \in CleanFragments}

CleanInit ==
    /\ url \in CleanInputs
    /\ cleaned = <<>>
    /\ twice = <<>>
    /\ cpc = "start"
    /\ IdleReserved /\ IdleAnalyze /\ IdleCollect /\ IdleLoad

CleanOnce ==
    /\ cpc = "start"
    /\ cleaned' = <<clean_track_url(url)>>
    /\ cpc' = "once"
    /\ UNCHANGED <<url, twice, reservedVars, analyzeVars, collectVars, loadVars>>

CleanTwice ==
    /\ cpc = "once"
    /\ twice' = <<clean_track_url(cleaned[1])>>
    /\ cpc' = "twice"
    /\ UNCHANGED <<url, cleaned, reservedVars, analyzeVars, collectVars, loadVars>>

CleanNext == CleanOnce \/ CleanTwice

SpecClean == CleanInit /\ [][CleanNext]_vars

\* C1: clean_track_url is idempotent: cleaning a cleaned URL changes nothing.
C1_Idempotent == cpc = "twice" => twice[1] = cleaned[1]

\* The query parameters of u as written: the text between the first '?' and the
\* fragment, split at '&'.
WrittenParams(u) ==
    LET h == Find(u, "#", 1)
        nofrag == IF h = 0 THEN u ELSE Slice(u, 1, h - 1)
        q == Find(nofrag, "?", 1)
    IN  IF q = 0 THEN <<>> ELSE Split(Slice(nofrag, q + 1, Len(nofrag)), "&")

\* u up to its first '?'
BeforeQuery(u) == Slice(u, 1, Find(u, "?", 1) - 1)

\* u has a lower-case scheme and host, and a query of name=value parameters of
\* which some are tracking parameters and some are not.
MixedQuery(u) ==
    /\ StartsWith(u, "https://")
    /\ Find(u, "?", 1) # 0
    /\ Find(u, "#", 1) = 0 \/ Find(u, "?", 1) < Find(u, "#", 1)
    /\ \A k \in DOMAIN WrittenParams(u) :
          Contains(WrittenParams(u)[k], "=") /\ ~Contains(WrittenParams(u)[k], "?")
    /\ \E k \in DOMAIN WrittenParams(u) : StartsWith(WrittenParams(u)[k], "in=")
    /\ \E k \in DOMAIN WrittenParams(u) : ~StartsWith(WrittenParams(u)[k], "in=")

\* C2: for a URL whose query mixes tracking and other parameters, the result is the
\* URL up to the query, exactly one '?', and the non-'in=' parameters in their
\* original order joined by '&', without the fragment.
C2_DropsTracking ==
    (cpc # "start" /\ MixedQuery(url)) =>
        cleaned[1] = BeforeQuery(url) \o "?" \o Join(DropTracking(WrittenParams(url)), "&")

(***************************************************************************)
(* load_tracks_from_html_file on saved playlist files                      *)
(***************************************************************************)
MaxHrefs == 2
MaxScripts == 2

\* The href of an <a href> of the file
HrefPool ==
    {"/ownerA/trackA", "/ownerA/trackB",
     "https://soundcloud.com/ownerA/trackB?in=ownerA/sets/x#t",
     "/about/jobs", "/alice/popular-tracks", "/pagesx/y", "/ownerA",
     "https://bandcamp.com/a/b"}

HrefLists == UNION {[1..n -> HrefPool] : n \in 0..MaxHrefs}

Script(text) == [head |-> text, gap |-> 0, tail |-> ""]

\* A data block: one playlist entry with the given declared count and permalinks
RECURSIVE TracksJson(_)
TracksJson(permalinks) ==
    IF permalinks = <<>> THEN ""
    ELSE "{\"permalink_url\":\"" \o permalinks[1] \o "\"}"
         \o (IF Len(permalinks) > 1 THEN "," ELSE "") \o TracksJson(Tail(permalinks))

PlaylistEntry(count, permalinks) ==
    "{\"hydratable\":\"playlist\",\"data\":{\"track_count\":" \o count
    \o ",\"tracks\":[" \o TracksJson(permalinks) \o "]}}"

Marker == "window.__sc_hydration = "

GoodScript ==
    Script(Marker \o "[" \o PlaylistEntry("3", <<"https://soundcloud.com/ownerA/trackB?in=x",
                                                  "https://soundcloud.com/ownerD/trackD">>) \o "];")

\* permalinks that are not item URLs of the site
ForeignScript ==
    Script(Marker \o "[" \o PlaylistEntry("2", <<"http://evil.example/x",
                                                  "https://soundcloud.com/ownerA">>) \o "];")

\* the bracket that opens the block is never closed
UnterminatedScript ==
    Script(Marker \o "[" \o PlaylistEntry("9", <<"https://soundcloud.com/ownerZ/trackZ">>) \o ";")

\* the same, in a script longer than the window
UnterminatedLongScript ==
    [head |-> Marker \o "[" \o PlaylistEntry("9", <<"https://soundcloud.com/ownerZ/trackZ">>) \o ",",
     gap |-> ScanWindow, tail |-> "0;"]

\* a well-formed block whose closing bracket is the last character of the window
EdgeBlock == PlaylistEntry("1", <<"https://soundcloud.com/ownerE/trackE">>) \o "]"
EdgeScript ==
    [head |-> Marker \o "[", gap |-> ScanWindow - 1 - Len(EdgeBlock), tail |-> EdgeBlock \o ";"]

\* the same block one character further: closed, but outside the window
FarScript ==
    [head |-> Marker \o "[", gap |-> ScanWindow - Len(EdgeBlock), tail |-> EdgeBlock \o ";"]

\* the marker twice in one script: a block that is not JSON, then a well-formed one
TwoMarkerScript ==
    Script(Marker \o "[oops]; " \o Marker \o "["
           \o PlaylistEntry("1", <<"https://soundcloud.com/ownerF/trackF">>) \o "];")

\* the variable without the "window." prefix
BareScript ==
    Script("__sc_hydration = [" \o PlaylistEntry("1", <<"https://soundcloud.com/ownerG/trackG">>) \o "];")

ScriptPool ==
    {Script(""), Script("var a = [1];"), GoodScript, ForeignScript, UnterminatedScript,
     UnterminatedLongScript, EdgeScript, FarScript, TwoMarkerScript, BareScript}

ScriptLists == UNION {[1..n -> ScriptPool] : n \in 0..MaxScripts}

Metas == {<<>>, <<"5">>, <<"many">>}
Texts == {"", "Playlist Contains tracks 12", "A mix of 3 tracks", "12345 tracks by alice"}

\* The files: any anchors with few scripts, few anchors with any scripts, and the
\* count sources with one anchor
HtmlFiles ==
    [anchors : HrefLists, scripts : {<<>>, <<GoodScript>>}, meta : {<<>>}, text : {""}]
    \cup [anchors : {<<"/ownerA/trackB", "/ownerA/trackA">>}, scripts : ScriptLists,
          meta : {<<>>}, text : {""}]
    \cup [anchors : {<<"/ownerA/trackA">>}, scripts : {<<>>, <<GoodScript>>, <<UnterminatedScript>>},
          meta : Metas, text : Texts]

LoadInit ==
    /\ html \in HtmlFiles
    /\ track_links = {} /\ hydration_links = {} /\ declared_count = <<>>
    /\ script_idx = 0 /\ scans = <<>> /\ all_links = <<>> /\ previous = <<>>
    /\ lpc = "start"
    /\ IdleReserved /\ IdleClean /\ IdleAnalyze /\ IdleCollect

\* track_links = parse_track_links_from_html(html_content); the script loop begins
LoadAnchors ==
    /\ lpc = "start"
    /\ track_links' = parse_track_links_from_html(html.anchors)
    /\ script_idx' = 1
    /\ lpc' = "scripts"
    /\ UNCHANGED <<html, hydration_links, declared_count, scans, all_links, previous,
                   cleanVars, reservedVars, analyzeVars, collectVars>>

\* One turn of "for script in script_tags"
LoadScript ==
    /\ lpc = "scripts" /\ script_idx <= Len(html.scripts)
    /\ LET Turn(scan) ==
               /\ hydration_links' = hydration_links \cup scan.links
               /\ declared_count' = IF declared_count = <<>> THEN scan.declared ELSE declared_count
               /\ scans' = Append(scans, scan)
       IN  Turn(ScanScript(html.scripts[script_idx]))
    /\ script_idx' = script_idx + 1
    /\ UNCHANGED <<html, track_links, all_links, previous, lpc,
                   cleanVars, reservedVars, analyzeVars, collectVars>>

\* After the loop: the sorted union, the fallback for the declared count, return
LoadReturn ==
    /\ lpc = "scripts" /\ script_idx > Len(html.scripts)
    /\ all_links' = sorted(track_links \cup hydration_links)
    /\ declared_count' = IF declared_count = <<>> THEN extract_declared_track_count(html)
                         ELSE declared_count
    /\ lpc' = "done"
    /\ UNCHANGED <<html, track_links, hydration_links, script_idx, scans, previous,
                   cleanVars, reservedVars, analyzeVars, collectVars>>

\* The function is called again on the same file
LoadAgain ==
    /\ lpc = "done" /\ previous = <<>>
    /\ previous' = <<[links |-> all_links, declared |-> declared_count]>>
    /\ track_links' = {} /\ hydration_links' = {} /\ declared_count' = <<>>
    /\ script_idx' = 0 /\ scans' = <<>> /\ all_links' = <<>>
    /\ lpc' = "start"
    /\ UNCHANGED <<html, cleanVars, reservedVars, analyzeVars, collectVars>>

LoadNext == LoadAnchors \/ LoadScript \/ LoadReturn \/ LoadAgain

SpecLoad == LoadInit /\ [][LoadNext]_vars

\* The bracket that follows the first marker of the script is never closed
Unterminated(sc) ==
    LET Open(array_start) ==
            /\ array_start # 0
            /\ ~BracketScan(sc, Brackets(sc, array_start, ScLen(sc)), ScLen(sc), 0).closed
        Marked(start_idx) == start_idx # 0 /\ Open(ScFind(sc, "[", start_idx))
    IN  Marked(ScFind(sc, "window.__sc_hydration", 1))

Returned == {all_links[k] : k \in DOMAIN all_links}

\* C6: for a script whose bracket after the marker is never closed, the scan examines
\* at most ScanWindow characters from that bracket, raises nothing, and adds no
\* link and no declared count; the function still returns, and what it returns
\* holds every link of the file's anchors.
C6_BoundedScan ==
    /\ \A k \in DOMAIN scans :
          Unterminated(html.scripts[k]) =>
             /\ scans[k].scanned /\ ~scans[k].closed
             /\ scans[k].examined <= ScanWindow
             /\ ~scans[k].raised
             /\ scans[k].links = {} /\ scans[k].declared = <<>>
    /\ (\A k \in DOMAIN scans : Unterminated(html.scripts[k])) =>
          /\ hydration_links = {}
          /\ lpc = "scripts" => declared_count = <<>>
    /\ (lpc = "done" /\ \E k \in DOMAIN html.scripts : Unterminated(html.scripts[k])) =>
          /\ Len(scans) = Len(html.scripts)
          /\ parse_track_links_from_html(html.anchors) \subseteq Returned

\* A file with two item anchors and an unclosed bracket in a script longer than the
\* window has been loaded: the scan stopped at the window and both anchors came back
C6_Witness ==
    /\ lpc = "done"
    /\ html.anchors = <<"/ownerA/trackB", "/ownerA/trackA">>
    /\ html.scripts = <<UnterminatedLongScript>>
    /\ Unterminated(html.scripts[1])
    /\ ScLen(html.scripts[1]) > ScanWindow
    /\ scans[1].examined = ScanWindow
    /\ all_links = <<"https://soundcloud.com/ownerA/trackA", "https://soundcloud.com/ownerA/trackB">>

Site == "soundcloud.com"

\* The Canonical Item URL invariant
IsCanonical(u) ==
    LET parsed == urlparse(u)
        params == Split(parsed.query, "&")
    IN  /\ parsed.scheme = "https"
        /\ Lower(parsed.netloc) = Site
        /\ Len(NonEmpty(Split(parsed.path, "/"))) >= 2
        /\ ~Contains(u, "#")
        /\ \A k \in DOMAIN params : ~StartsWith(params[k], "in=")
        /\ Ch(u, Len(u)) # "?"

\* C9: every URL of the returned sequence is a Canonical Item URL, whether it came
\* from an anchor or from a permalink of a data block.
C9_AllCanonical ==
    lpc = "done" => \A k \in DOMAIN all_links : IsCanonical(all_links[k])

\* s[::-1] and s[1:] + s[:1] on a list
Reverse(seq) == [k \in DOMAIN seq |-> seq[Len(seq) + 1 - k]]
Rotate(seq) == IF seq = <<>> THEN <<>> ELSE Tail(seq) \o <<Head(seq)>>

\* The script loop from the k-th script on: the hydration links at its end
RECURSIVE HydrationLoop(_, _, _)
HydrationLoop(scripts, k, links) ==
    IF k > Len(scripts) THEN links
    ELSE HydrationLoop(scripts, k + 1, links \cup ScanScript(scripts[k]).links)

\* The sequence load_tracks_from_html_file returns for a file
LoadedLinks(file) ==
    sorted(parse_track_links_from_html(file.anchors) \cup HydrationLoop(file.scripts, 1, {}))

ExampleLinks == <<"https://soundcloud.com/ownerA/trackA", "https://soundcloud.com/ownerA/trackB">>

\* C10: the returned sequence is strictly increasing and holds exactly the links of
\* the anchors and the links of the data blocks; the file with its anchors and
\* scripts in another order gives the same sequence, and so does a second run; two
\* item anchors and no script give the two URLs in order and no declared count.
C10_SortedUnion ==
    lpc = "done" =>
       /\ \A k \in 1..(Len(all_links) - 1) : StrLess(all_links[k], all_links[k + 1])
       /\ Returned = parse_track_links_from_html(html.anchors)
                        \cup UNION {ScanScript(html.scripts[k]).links : k \in DOMAIN html.scripts}
       /\ all_links = LoadedLinks([html EXCEPT !.anchors = Reverse(@), !.scripts = Rotate(@)])
       /\ all_links = LoadedLinks([html EXCEPT !.anchors = Rotate(@), !.scripts = Reverse(@)])
       /\ previous # <<>> => all_links = previous[1].links
       /\ ( /\ html.anchors \in {<<"/ownerA/trackA", "/ownerA/trackB">>, <<"/ownerA/trackB", "/ownerA/trackA">>}
            /\ html.scripts = <<>> /\ html.meta = <<>> /\ html.text = "" )
          => all_links = ExampleLinks /\ declared_count = <<>>

\* A second run on a file whose anchors (out of order) and data block share an item:
\* three links, in order, once each
C10_Witness ==
    /\ lpc = "done" /\ previous # <<>>
    /\ html.anchors = <<"/ownerA/trackB", "/ownerA/trackA">>
    /\ html.scripts = <<GoodScript>>
    /\ all_links = ExampleLinks \o <<"https://soundcloud.com/ownerD/trackD">>


HydrationMarker == "window.__sc_hydration"

\* The indexes of a script at which the marker occurs (the marker holds no space,
\* so an occurrence lies in the head or in the tail)
MarkerOccurrences(sc) ==
    {i \in 1..Len(sc.head) : Slice(sc.head, i, i + Len(HydrationMarker) - 1) = HydrationMarker}
    \cup {Len(sc.head) + sc.gap + i : i \in
             {j \in 1..Len(sc.tail) : Slice(sc.tail, j, j + Len(HydrationMarker) - 1) = HydrationMarker}}

\* The data block of the occurrence at index i: the first '[' at or after it, the
\* matching ']' within the window, the text between them read as JSON
BlockAt(sc, i) ==
    LET From(array_start) == IF array_start = 0 THEN NoScan ELSE ScanTry(sc, array_start)
    IN  From(ScFind(sc, "[", i))

\* C13: when the block of one marker occurrence fails to parse, the links of every
\* well-formed block of a later occurrence, in the same script or in a later one,
\* are among the links returned.
C13_LaterBlocksCollected ==
    lpc = "done" =>
        \A k \in DOMAIN html.scripts : \A i \in MarkerOccurrences(html.scripts[k]) :
            ( /\ BlockAt(html.scripts[k], i).scanned /\ ~BlockAt(html.scripts[k], i).raised
              /\ \/ \E e \in MarkerOccurrences(html.scripts[k]) :
                        e < i /\ BlockAt(html.scripts[k], e).raised
                 \/ \E n \in 1..(k - 1) : \E e \in MarkerOccurrences(html.scripts[n]) :
                        BlockAt(html.scripts[n], e).raised )
            => BlockAt(html.scripts[k], i).links \subseteq Returned

(***************************************************************************)
(* SpecReserved: is_reserved_path on a list of path segments, and          *)
(* parse_track_links_from_html on one anchor to the path they spell        *)
(***************************************************************************)
MaxSegments == 3

SegmentPool ==
    {"about", "alice", "popular-tracks", "my-track", "company", "jobs", "PagesX", "Likes"}

SegmentLists == UNION {[1..n -> SegmentPool] : n \in 0..MaxSegments}

\* The absolute href of an anchor to the path the segments spell
PathHref(segs) == "https://soundcloud.com/" \o Join(segs, "/")

ReservedInit ==
    /\ seg_list \in SegmentLists
    /\ verdict = <<>> /\ kept_links = {}
    /\ rpc = "start"
    /\ IdleClean /\ IdleAnalyze /\ IdleCollect /\ IdleLoad

\* is_reserved_path(segments) is called
ReservedCall ==
    /\ rpc = "start"
    /\ verdict' = <<is_reserved_path(seg_list)>>
    /\ rpc' = "called"
    /\ UNCHANGED <<seg_list, kept_links, cleanVars, analyzeVars, collectVars, loadVars>>

\* parse_track_links_from_html runs on a page whose one anchor leads to the path
ReservedParse ==
    /\ rpc = "called"
    /\ kept_links' = parse_track_links_from_html(<<PathHref(seg_list)>>)
    /\ rpc' = "done"
    /\ UNCHANGED <<seg_list, verdict, cleanVars, analyzeVars, collectVars, loadVars>>

ReservedNext == ReservedCall \/ ReservedParse

SpecReserved == ReservedInit /\ [][ReservedNext]_vars

ReservedPrefix == "pages"

\* C11: is_reserved_path is true exactly when the list is empty, or its case-folded
\* first segment is in the reserved top-level set, or a second segment exists and
\* its case-folded form is in the reserved second-level set, or the case-folded
\* first segment starts with the prefix token; it is true for ["about"] and
\* ["alice","popular-tracks"], false for ["alice","my-track"]; and
\* parse_track_links_from_html keeps nothing of an anchor to a reserved path, also
\* when the two-segment pattern matches its href.
C11_ReservedExactly ==
    /\ rpc \in {"called", "done"} =>
          /\ verdict[1] =
                ( \/ seg_list = <<>>
                  \/ Len(seg_list) >= 1 /\ Lower(seg_list[1]) \in RESERVED_FIRST_SEGMENTS
                  \/ Len(seg_list) >= 2 /\ Lower(seg_list[2]) \in RESERVED_SECOND_SEGMENTS
                  \/ Len(seg_list) >= 1 /\ StartsWith(Lower(seg_list[1]), ReservedPrefix) )
          /\ seg_list \in {<<"about">>, <<"alice", "popular-tracks">>} => verdict = <<TRUE>>
          /\ seg_list = <<"alice", "my-track">> => verdict = <<FALSE>>
    /\ (rpc = "done" /\ verdict = <<TRUE>>) => kept_links = {}

\* The anchor to /company/jobs: its href matches the two-segment pattern, its item
\* segment is no reserved slug, the path is reserved, and nothing of it was kept
C11_Witness ==
    /\ rpc = "done"
    /\ seg_list = <<"company", "jobs">>
    /\ TrackUrlMatch(PathHref(seg_list)) = <<"company", "jobs">>
    /\ "jobs" \notin RESERVED_TRACK_SLUGS
    /\ verdict = <<TRUE>>
    /\ kept_links = {}

====
